---- MODULE Spec2Model ----
(***************************************************************************)
(* Hybrid RAG question-answering service: the intent classifier            *)
(* (mcp/intent_classifier.py), the router (mcp/tool_router.py), the        *)
(* cache-aside endpoint (main.py), the answer strategies (rag.py,          *)
(* tools/duckduckgo_search.py, tools/student_api.py), the pooled database  *)
(* scope (db.py) and the vector retriever (vector_store.py).               *)
(*                                                                         *)
(* Python strings are TLA+ strings; Len, SubSeq and \o act on them.        *)
(* A call that can raise returns a record [ok |-> BOOLEAN, ...].           *)
(***************************************************************************)
EXTENDS Integers, Sequences, FiniteSets, TLC

VARIABLES
    question,        \* classifier run: the question being classified
    cpc,             \* classifier run: "off" | "ready" | "done"
    intent,          \* classifier run: the value classify_intent returned
    today,           \* datetime.now(): [year, month] as strftime("%Y"), ("%B") give them
    connection_pool, \* db.connection_pool: [created, used], used = connections checked out
    students,        \* the committed rows of table students (the name column)
    scope,           \* the last execute_sql_query call: its statement, database calls, result
    nscopes,         \* number of execute_sql_query calls made so far
    disk,            \* the files crime_index.faiss and crime_texts.pkl: None or their content
    server,          \* "starting" | "serving" | "failed": the import of vector_store
    index_ntotal,    \* vector_store.index.ntotal
    texts,           \* vector_store.texts
    found,           \* the last search_similar call: top_k and what it returned or raised
    cache,           \* the Redis store: key -> entry
    clock,           \* seconds since the start
    last,            \* the last /ask request: its locals, calls and response
    nreq,            \* number of /ask requests handled so far
    threads,         \* concurrent /ask requests: each one's position and locals
    wlog,            \* the setex calls the concurrent requests issued, in order
    workers,         \* threads inside a DatabaseConnection scope: position, connection
    pools,           \* every SimpleConnectionPool created: its checked-out count
    current          \* which pool db.connection_pool names (0: None)

classifierVars == <<question, cpc, intent>>

dbVars == <<connection_pool, students, scope, nscopes>>

retrieverVars == <<disk, server, index_ntotal, texts, found>>

routerVars == <<cache, clock, last, nreq>>

threadVars == <<threads, wlog, workers, pools, current>>

vars == <<question, cpc, intent, today, connection_pool, students, scope, nscopes,
          disk, server, index_ntotal, texts, found, cache, clock, last, nreq, threadVars>>

-----------------------------------------------------------------------------
(* Bounds of the model *)

\* number of words in a generated question
MaxWords == 2

\* number of database operations that can fail within one scope
MaxFaults == 2

\* number of execute_sql_query calls in one run of the database model
MaxScopes == 3

\* number of passages and of index vectors in the files on disk
MaxCorpus == 3

\* largest top_k a direct search_similar call is given
MaxTopK == 4

\* number of hits the web search provider returns
MaxHits == 2

\* number of /ask requests in one run of the router model
MaxRequests == 2

\* number of threads inside DatabaseConnection scopes at the same time, and the
\* number of scopes each of them runs
MaxWorkers == 2

MaxRounds == 2

\* number of /ask requests in flight at the same time
MaxThreads == 2

\* seconds the clock advances in one step, and the number of such steps
TickSeconds == 900

MaxTicks == 2

-----------------------------------------------------------------------------
(* Python string primitives *)

UpperAlphabet == "ABCDEFGHIJKLMNOPQRSTUVWXYZ"

LowerAlphabet == "abcdefghijklmnopqrstuvwxyz"

WordChars == "abcdefghijklmnopqrstuvwxyzABCDEFGHIJKLMNOPQRSTUVWXYZ0123456789_"

CharAt(s, i) == SubSeq(s, i, i)

\* str.lower() on one character
LowerChar(c) ==
    IF \E i \in 1..Len(UpperAlphabet) : CharAt(UpperAlphabet, i) = c
    THEN CharAt(LowerAlphabet, CHOOSE i \in 1..Len(UpperAlphabet) : CharAt(UpperAlphabet, i) = c)
    ELSE c

RECURSIVE Lower(_)
\* str.lower()
Lower(s) == IF Len(s) = 0 THEN "" ELSE LowerChar(CharAt(s, 1)) \o Lower(SubSeq(s, 2, Len(s)))

\* str.upper() on one character
UpperChar(c) ==
    IF \E i \in 1..Len(LowerAlphabet) : CharAt(LowerAlphabet, i) = c
    THEN CharAt(UpperAlphabet, CHOOSE i \in 1..Len(LowerAlphabet) : CharAt(LowerAlphabet, i) = c)
    ELSE c

RECURSIVE Upper(_)
\* str.upper()
Upper(s) == IF Len(s) = 0 THEN "" ELSE UpperChar(CharAt(s, 1)) \o Upper(SubSeq(s, 2, Len(s)))

Whitespace == { " ", "\n", "\t", "\r" }

RECURSIVE LStrip(_)
LStrip(s) ==
    IF Len(s) > 0 /\ CharAt(s, 1) \in Whitespace THEN LStrip(SubSeq(s, 2, Len(s))) ELSE s

RECURSIVE RStrip(_)
RStrip(s) ==
    IF Len(s) > 0 /\ CharAt(s, Len(s)) \in Whitespace THEN RStrip(SubSeq(s, 1, Len(s) - 1)) ELSE s

\* str.strip()
Strip(s) == RStrip(LStrip(s))

RECURSIVE Split(_, _)
\* s.split(sep) for a one-character separator: a sequence of strings
Split(s, sep) ==
    IF \E i \in 1..Len(s) : CharAt(s, i) = sep
    THEN LET i == CHOOSE j \in 1..Len(s) :
                     CharAt(s, j) = sep /\ \A k \in 1..(j - 1) : CharAt(s, k) # sep
         IN <<SubSeq(s, 1, i - 1)>> \o Split(SubSeq(s, i + 1, Len(s)), sep)
    ELSE <<s>>

RECURSIVE Join(_, _)
\* sep.join(parts)
Join(parts, sep) ==
    IF Len(parts) = 0 THEN ""
    ELSE IF Len(parts) = 1 THEN parts[1]
    ELSE parts[1] \o sep \o Join(Tail(parts), sep)

\* the value a call returned, and the exception it raised
Ok(v) == [ok |-> TRUE, val |-> v, exc |-> ""]

Raise(e) == [ok |-> FALSE, val |-> "", exc |-> e]

\* Python's `k in s` on strings: substring containment
Contains(s, k) ==
    /\ Len(k) <= Len(s)
    /\ \E i \in 1..(Len(s) - Len(k) + 1) : SubSeq(s, i, i + Len(k) - 1) = k

\* s.startswith(k)
StartsWith(s, k) == Len(k) <= Len(s) /\ SubSeq(s, 1, Len(k)) = k

IsWordChar(c) == \E i \in 1..Len(WordChars) : CharAt(WordChars, i) = c

\* re.search(r"\bw\b", s) for a literal w that starts and ends with a word character
SearchWord(s, w) ==
    /\ Len(w) <= Len(s)
    /\ \E i \in 1..(Len(s) - Len(w) + 1) :
          /\ SubSeq(s, i, i + Len(w) - 1) = w
          /\ (i = 1 \/ ~IsWordChar(CharAt(s, i - 1)))
          /\ (i + Len(w) - 1 = Len(s) \/ ~IsWordChar(CharAt(s, i + Len(w))))

-----------------------------------------------------------------------------
(* mcp/intent_classifier.py *)

temporal_keywords(now) ==
    { "today", "now", "current", "latest", "recent", "yesterday", "this week",
      "this month", "this year", "trending", "breaking", "live", "real-time",
      now.year, now.month }

live_topics ==
    { "news", "weather", "stock", "price", "election", "covid", "pandemic",
      "sports score", "match result", "currency rate", "exchange rate", "update" }

\* the literals of the patterns r"\bwill\b", r"\bgoing to\b", ...
future_patterns == { "will", "going to", "forecast", "predict", "expect" }

student_keywords ==
    { "student", "students", "enrollment", "enrolled", "course", "courses",
      "class", "classes", "grade", "grades", "gpa", "learner", "learners",
      "pupil", "pupils", "undergraduate", "graduate", "major", "minor" }

student_operations ==
    { "add student", "create student", "new student", "register student",
      "enroll student", "delete student", "remove student", "update student",
      "modify student", "edit student", "list student", "show student",
      "find student", "search student", "get student", "how many student",
      "count student", "average age", "who is enrolled", "who is taking",
      "who studies" }

domain_keywords ==
    { "crime", "criminal", "incident", "offense", "arrest", "robbery", "theft",
      "assault", "burglary", "homicide", "violation", "suspect", "victim",
      "report", "police", "investigation", "felony", "misdemeanor", "los angeles" }

is_live_question(q, now) ==
    LET question_lower == Lower(q) IN
    \/ \E keyword \in temporal_keywords(now) : Contains(question_lower, keyword)
    \/ \E topic \in live_topics : Contains(question_lower, topic)
    \/ \E pattern \in future_patterns : SearchWord(question_lower, pattern)

is_student_question(q) ==
    LET question_lower == Lower(q) IN
    \/ \E keyword \in student_keywords : Contains(question_lower, keyword)
    \/ \E operation \in student_operations : Contains(question_lower, operation)

is_domain_question(q) ==
    LET question_lower == Lower(q) IN
    \E keyword \in domain_keywords : Contains(question_lower, keyword)

\* classify_intent with the Live check moved ahead of the Structured check
classify_intent_live_first(q, now) ==
    IF is_live_question(q, now) THEN "web"
    ELSE IF is_student_question(q) THEN "student"
    ELSE IF is_domain_question(q) THEN "rag"
    ELSE "general"

\* classify_intent with the Domain check dropped
classify_intent_no_domain(q, now) ==
    IF is_student_question(q) THEN "student"
    ELSE IF is_live_question(q, now) THEN "web"
    ELSE "general"

\* classify_intent with the Domain check moved ahead of the Live check
classify_intent_domain_first(q, now) ==
    IF is_student_question(q) THEN "student"
    ELSE IF is_domain_question(q) THEN "rag"
    ELSE IF is_live_question(q, now) THEN "web"
    ELSE "general"

classify_intent(q, now) ==
    IF is_student_question(q) THEN "student"
    ELSE IF is_live_question(q, now) THEN "web"
    ELSE IF is_domain_question(q) THEN "rag"
    ELSE "general"

-----------------------------------------------------------------------------
(* The PostgreSQL server behind psycopg2, as the statements of the model see it *)

InitialStudents == <<"Alice", "Bob">>

SelectNames == "SELECT name FROM students;"

DeleteAll == "DELETE FROM students;"

BadSelect == "SELECT name FROM student;"

Statements == { SelectNames, DeleteAll, BadSelect }

\* cursor.execute(sql) on a table holding `table`: the rows it yields, the table it
\* leaves pending in the transaction, and cursor.rowcount; an unknown relation raises
DbRun(sql, table) ==
    IF sql = SelectNames
    THEN [ok |-> TRUE, exc |-> "", columns |-> <<"name">>,
          rows |-> [i \in 1..Len(table) |-> <<table[i]>>],
          pending |-> table, rowcount |-> Len(table)]
    ELSE IF sql = DeleteAll
    THEN [ok |-> TRUE, exc |-> "", columns |-> <<>>, rows |-> <<>>,
          pending |-> <<>>, rowcount |-> Len(table)]
    ELSE [ok |-> FALSE, exc |-> "ProgrammingError", columns |-> <<>>, rows |-> <<>>,
          pending |-> table, rowcount |-> 0]

\* the psycopg2 calls of one scope that the environment can make fail
DbOps == { "connect", "cursor", "execute", "commit", "rollback", "close" }

FaultSets == { f \in SUBSET DbOps : Cardinality(f) <= MaxFaults }

-----------------------------------------------------------------------------
(* db.py *)

maxconn == 10

NoPool == [created |-> FALSE, used |-> 0]

\* initialize_pool: SimpleConnectionPool(minconn, maxconn) connects on creation
initialize_pool(pool, faults) ==
    IF "connect" \in faults
    THEN [ok |-> FALSE, exc |-> "OperationalError", pool |-> pool]
    ELSE [ok |-> TRUE, exc |-> "", pool |-> [created |-> TRUE, used |-> 0]]

\* connection_pool.getconn() once the pool exists, or the failure to create it
getconn(init, faults) ==
    IF ~init.ok THEN init
    ELSE IF init.pool.used >= maxconn
    THEN [ok |-> FALSE, exc |-> "PoolError", pool |-> init.pool]
    ELSE IF "connect" \in faults
    THEN [ok |-> FALSE, exc |-> "OperationalError", pool |-> init.pool]
    ELSE [ok |-> TRUE, exc |-> "", pool |-> [init.pool EXCEPT !.used = init.pool.used + 1]]

\* get_db_connection: creates the pool on first use, then getconn()
get_db_connection(pool, faults) ==
    getconn(IF ~pool.created THEN initialize_pool(pool, faults)
            ELSE [ok |-> TRUE, exc |-> "", pool |-> pool],
            faults)

\* release_db_connection: putconn(conn) when there is a pool and a connection
release_db_connection(pool, hasConn) ==
    IF pool.created /\ hasConn THEN [pool EXCEPT !.used = pool.used - 1] ELSE pool

\* self.cursor = self.conn.cursor(), given what get_db_connection did
open_cursor(got, faults) ==
    IF ~got.ok
    THEN [ok |-> FALSE, exc |-> got.exc, pool |-> got.pool, calls |-> <<>>]
    ELSE IF "cursor" \in faults
    THEN [ok |-> FALSE, exc |-> "InterfaceError", pool |-> got.pool, calls |-> <<"getconn">>]
    ELSE [ok |-> TRUE, exc |-> "", pool |-> got.pool, calls |-> <<"getconn", "cursor">>]

\* DatabaseConnection.__enter__: the database calls made, the pool afterwards, and
\* whether a cursor came back
DatabaseConnection_enter(pool, faults) == open_cursor(get_db_connection(pool, faults), faults)

\* DatabaseConnection.__exit__ with exc_type set (failed) or None: rollback or commit,
\* cursor.close(), release_db_connection; any of the first three may raise, and
\* the statements after it are then not run
DatabaseConnection_exit(pool, failed, faults) ==
    IF (IF failed THEN "rollback" ELSE "commit") \in faults
    THEN [ok |-> FALSE, exc |-> "OperationalError", pool |-> pool,
          calls |-> <<>>, committed |-> FALSE]
    ELSE IF "close" \in faults
    THEN [ok |-> FALSE, exc |-> "InterfaceError", pool |-> pool,
          calls |-> <<IF failed THEN "rollback" ELSE "commit">>, committed |-> ~failed]
    ELSE [ok |-> TRUE, exc |-> "", pool |-> release_db_connection(pool, TRUE),
          calls |-> <<IF failed THEN "rollback" ELSE "commit", "close", "putconn">>,
          committed |-> ~failed]

-----------------------------------------------------------------------------
(* tools/student_api.py: execute_sql_query *)

\* str(dict(zip(columns, row))) for a one-column row of text
FormatRow(columns, row) == "{'" \o columns[1] \o "': '" \o row[1] \o "'}"

\* the body of the with block, after cursor.execute(sql_query) succeeded
FormatResults(sql_query, run) ==
    IF StartsWith(Upper(Strip(sql_query)), "SELECT")
    THEN IF Len(run.rows) = 0 THEN "No results found."
         ELSE Join([i \in 1..Len(run.rows) |-> FormatRow(run.columns, run.rows[i])], "\n")
    ELSE "Query executed successfully. Rows affected: " \o ToString(run.rowcount)

\* cursor.execute(sql_query), which the environment can make fail
cursor_execute(sql_query, table, faults) ==
    IF "execute" \in faults
    THEN [ok |-> FALSE, exc |-> "OperationalError", columns |-> <<>>,
          rows |-> <<>>, pending |-> table, rowcount |-> 0]
    ELSE DbRun(sql_query, table)

\* scope_result that reports a failed statement as an empty result set
scope_result_silent(sql_query, table, enter, run, exit) ==
    [val |-> IF ~exit.ok \/ ~run.ok THEN "No results found."
             ELSE FormatResults(sql_query, run),
     pool |-> exit.pool,
     table |-> IF exit.committed THEN run.pending ELSE table,
     calls |-> enter.calls \o (IF run.ok THEN <<"execute">> ELSE <<>>) \o exit.calls,
     sql |-> sql_query]

\* what execute_sql_query returns and leaves, given what __enter__, the statement
\* and __exit__ did: an exception of __exit__ replaces the one of the statement
scope_result(sql_query, table, enter, run, exit) ==
    [val |-> IF ~exit.ok THEN "Error executing query: " \o exit.exc
             ELSE IF ~run.ok THEN "Error executing query: " \o run.exc
             ELSE FormatResults(sql_query, run),
     pool |-> exit.pool,
     table |-> IF exit.committed THEN run.pending ELSE table,
     calls |-> enter.calls \o (IF run.ok THEN <<"execute">> ELSE <<>>) \o exit.calls,
     sql |-> sql_query]

\* the with block, given what the statement did
with_block(sql_query, table, faults, enter, run) ==
    scope_result(sql_query, table, enter, run,
                 DatabaseConnection_exit(enter.pool, ~run.ok, faults))

\* the try block, given what __enter__ did
try_block(sql_query, table, faults, enter) ==
    IF ~enter.ok
    THEN [val |-> "Error executing query: " \o enter.exc, pool |-> enter.pool,
          table |-> table, calls |-> enter.calls, sql |-> sql_query]
    ELSE with_block(sql_query, table, faults, enter,
                    cursor_execute(sql_query, table, faults))

\* execute_sql_query(sql_query) on pool `pool` and committed table `table`, with the
\* database calls in `faults` failing: the string returned, the pool and the
\* committed table afterwards, and the database calls that succeeded, in order
execute_sql_query(sql_query, pool, table, faults) ==
    try_block(sql_query, table, faults, DatabaseConnection_enter(pool, faults))

-----------------------------------------------------------------------------
(* vector_store.py *)

NoFile == [present |-> FALSE, n |-> 0]

File(n) == [present |-> TRUE, n |-> n]

\* the i-th passage of crime_texts.pkl
Passage(i) == "record " \o ToString(i)

\* the distance faiss reports for a slot it could not fill (label -1)
FaissNoDistance == 2147483647

\* the label orders index.search can report for an index of n vectors
Orders(n) == { o \in [1..n -> 0..(n - 1)] : \A i, j \in 1..n : i # j => o[i] # o[j] }

\* module load: faiss.read_index and pickle.load; only a missing file stops it
LoadResult(d) ==
    IF ~d.index.present \/ ~d.texts.present
    THEN [ok |-> FALSE, exc |-> "FileNotFoundError", ntotal |-> 0, texts |-> <<>>]
    ELSE [ok |-> TRUE, exc |-> "", ntotal |-> d.index.n,
          texts |-> [i \in 1..d.texts.n |-> Passage(i)]]

\* index.search(query_embedding, top_k): top_k labels, nearest first, -1 where the
\* index has no further vector; `order` is the ranking the query induces
FaissSearch(ntotal, top_k, order) ==
    [i \in 1..top_k |->
        IF i <= ntotal THEN [label |-> order[i], distance |-> i - 1]
        ELSE [label |-> -1, distance |-> FaissNoDistance]]

\* Python's list[idx]: a negative idx counts from the end
PyGetItem(list, idx) ==
    IF idx >= 0 /\ idx < Len(list) THEN Ok(list[idx + 1])
    ELSE IF idx < 0 /\ Len(list) + idx >= 0 THEN Ok(list[Len(list) + idx + 1])
    ELSE Raise("IndexError")

\* the loop over indices[0], given what index.search returned
collect_results(txts, hits) ==
    IF \E i \in 1..Len(hits) : ~PyGetItem(txts, hits[i].label).ok
    THEN [ok |-> FALSE, exc |-> "IndexError", results |-> <<>>]
    ELSE [ok |-> TRUE, exc |-> "",
          results |-> [i \in 1..Len(hits) |->
              [text |-> PyGetItem(txts, hits[i].label).val,
               distance |-> hits[i].distance, rank |-> i]]]

search_similar(query, top_k, ntotal, txts, order) ==
    collect_results(txts, FaissSearch(ntotal, top_k, order))

-----------------------------------------------------------------------------
(* rag.py *)

\* the completion endpoint as one call finds it: unreachable, or replying `text`
EndpointDown == [up |-> FALSE, text |-> ""]

Reply(t) == [up |-> TRUE, text |-> t]

query_ollama(prompt, endpoint) ==
    IF endpoint.up THEN Ok(endpoint.text) ELSE Raise("ConnectionError")

NoPrompt == [template |-> "", context |-> "", question |-> ""]

rag_top_k == 5

\* the prompt of rag_answer: its context section and its question
rag_prompt(q, context) == [template |-> "rag", context |-> context, question |-> q]

\* rag_answer after search_similar returned or raised
rag_complete(q, context_results, endpoint) ==
    IF ~context_results.ok
    THEN [res |-> Raise(context_results.exc), calls |-> <<"search_similar">>,
          prompt |-> NoPrompt]
    ELSE [res |-> query_ollama(
                     rag_prompt(q, Join([i \in 1..Len(context_results.results) |->
                                            context_results.results[i].text], "\n\n")),
                     endpoint),
          calls |-> <<"search_similar", "query_ollama">>,
          prompt |-> rag_prompt(q, Join([i \in 1..Len(context_results.results) |->
                                            context_results.results[i].text], "\n\n"))]

rag_answer(q, ntotal, txts, order, endpoint) ==
    rag_complete(q, search_similar(q, rag_top_k, ntotal, txts, order), endpoint)

-----------------------------------------------------------------------------
(* tools/duckduckgo_search.py *)

ProviderDown == [up |-> FALSE, hits |-> <<>>]

Hit(i) == [title |-> "Title " \o ToString(i), body |-> "Body " \o ToString(i),
           href |-> "http://site" \o ToString(i)]

\* what DDGS().text(query, max_results) can do: fail, or give up to max_results hits
DdgsOutcomes(max_results) ==
    { ProviderDown } \cup
    { [up |-> TRUE, hits |-> [i \in 1..n |-> Hit(i)]] :
        n \in 0..(IF max_results < MaxHits THEN max_results ELSE MaxHits) }

live_search(query, max_results, ddgs) ==
    IF ~ddgs.up THEN <<"Error performing web search: " \o "ConnectionError">>
    ELSE IF Len(ddgs.hits) = 0 THEN <<"No web results found for your query.">>
    ELSE [idx \in 1..Len(ddgs.hits) |->
            "[" \o ToString(idx) \o "] " \o ddgs.hits[idx].title \o "\n"
            \o ddgs.hits[idx].body \o "\nSource: " \o ddgs.hits[idx].href \o "\n"]

-----------------------------------------------------------------------------
(* tools/student_api.py: query_students_natural *)

\* the three backquotes of a markdown code fence; a TLA+ string cannot hold a
\* backquote, so a tilde stands for it here and in the replies of the endpoint
Fence == "~~~"

NotFenceLine(line) == ~StartsWith(line, Fence)

\* if sql_query.lower().startswith("sql"): sql_query = sql_query[3:].strip()
DropSqlPrefix(s) == IF StartsWith(Lower(s), "sql") THEN Strip(SubSeq(s, 4, Len(s))) ELSE s

\* if sql_query.startswith(fence): drop the lines that start with it, and strip
DropFences(s) ==
    IF StartsWith(s, Fence)
    THEN Strip(Join(SelectSeq(Split(s, "\n"), NotFenceLine), "\n"))
    ELSE s

\* the clean-up of the generated SQL: strip, drop fence lines, drop a leading "sql"
CleanSql(reply) == DropSqlPrefix(DropFences(Strip(reply)))

\* query_students_natural after the answer prompt was sent
students_result(raw, faults, ans) ==
    [val |-> IF ans.ok THEN ans.val
             ELSE "I encountered an error processing your question: " \o ans.exc,
     calls |-> <<"query_ollama", "execute_sql_query", "query_ollama">>,
     pool |-> raw.pool, table |-> raw.table, ran |-> TRUE,
     scope |-> [val |-> raw.val, calls |-> raw.calls, sql |-> raw.sql, faults |-> faults]]

\* query_students_natural after execute_sql_query returned
students_answer(q, faults, raw, endpoint2) ==
    students_result(raw, faults,
        query_ollama([template |-> "answer", context |-> raw.val, question |-> q],
                     endpoint2))

\* query_students_natural after the SQL prompt was sent
students_query(q, pool, table, faults, gen, endpoint2) ==
    IF ~gen.ok
    THEN [val |-> "I encountered an error processing your question: " \o gen.exc,
          calls |-> <<"query_ollama">>, pool |-> pool, table |-> table,
          ran |-> FALSE, scope |-> [val |-> "", calls |-> <<>>, sql |-> "", faults |-> {}]]
    ELSE students_answer(q, faults,
                         execute_sql_query(CleanSql(gen.val), pool, table, faults),
                         endpoint2)

\* query_students_natural(question): the string returned, the calls made, and the
\* pool, table and scope record execute_sql_query leaves
query_students_natural(q, pool, table, faults, endpoint1, endpoint2) ==
    students_query(q, pool, table, faults,
                   query_ollama([template |-> "sql", context |-> "", question |-> q],
                                endpoint1),
                   endpoint2)

-----------------------------------------------------------------------------
(* mcp/tool_router.py *)

query_ollama_direct(q, endpoint) ==
    query_ollama([template |-> "direct", context |-> "", question |-> q], endpoint)

web_max_results == 5

\* what the collaborators do during one request
Env(endpoint1, endpoint2, ddgs, faults, order) ==
    [endpoint1 |-> endpoint1, endpoint2 |-> endpoint2, ddgs |-> ddgs,
     faults |-> faults, order |-> order]

\* what a strategy that runs no SQL leaves of the database
Untouched(pool, table) ==
    [pool |-> pool, table |-> table, ran |-> FALSE,
     scope |-> [val |-> "", calls |-> <<>>, sql |-> "", faults |-> {}]]

\* return answer, "student"
route_student(r) ==
    [res |-> Ok(r.val), source |-> "student",
     calls |-> <<"classify_intent", "query_students_natural">> \o r.calls,
     pool |-> r.pool, table |-> r.table, ran |-> r.ran, scope |-> r.scope,
     prompt |-> NoPrompt]

\* context = "\n".join(search_results); return context, "web"
route_web(search_results, pool, table) ==
    [res |-> Ok(Join(search_results, "\n")), source |-> "web",
     calls |-> <<"classify_intent", "live_search">>, prompt |-> NoPrompt]
    @@ Untouched(pool, table)

\* return answer, "rag"
route_rag(r, pool, table) ==
    [res |-> r.res, source |-> "rag",
     calls |-> <<"classify_intent", "rag_answer">> \o r.calls, prompt |-> r.prompt]
    @@ Untouched(pool, table)

\* return answer, "general"
route_general(r, pool, table) ==
    [res |-> r, source |-> "general",
     calls |-> <<"classify_intent", "query_ollama_direct", "query_ollama">>,
     prompt |-> NoPrompt]
    @@ Untouched(pool, table)

\* route_question with a fall-through from a failed RAG answer to the general one
route_question_fallback(q, it, env, pool, table, ntotal, txts) ==
    IF it = "student"
    THEN route_student(query_students_natural(q, pool, table, env.faults,
                                              env.endpoint1, env.endpoint2))
    ELSE IF it = "web"
    THEN route_web(live_search(q, web_max_results, env.ddgs), pool, table)
    ELSE IF it = "rag" /\ rag_answer(q, ntotal, txts, env.order, env.endpoint1).res.ok
    THEN route_rag(rag_answer(q, ntotal, txts, env.order, env.endpoint1), pool, table)
    ELSE IF it = "rag"
    THEN [route_general(query_ollama_direct(q, Reply("The answer.")), pool, table)
            EXCEPT !.calls = <<"classify_intent", "rag_answer", "search_similar",
                               "query_ollama_direct", "query_ollama">>]
    ELSE route_general(query_ollama_direct(q, env.endpoint1), pool, table)

\* route_question(question) given the intent classify_intent returned: the
\* (answer, source_type) pair or the exception, the calls made in order, and the
\* database state afterwards
route_question(q, it, env, pool, table, ntotal, txts) ==
    IF it = "student"
    THEN route_student(query_students_natural(q, pool, table, env.faults,
                                              env.endpoint1, env.endpoint2))
    ELSE IF it = "web"
    THEN route_web(live_search(q, web_max_results, env.ddgs), pool, table)
    ELSE IF it = "rag"
    THEN route_rag(rag_answer(q, ntotal, txts, env.order, env.endpoint1), pool, table)
    ELSE route_general(query_ollama_direct(q, env.endpoint1), pool, table)

-----------------------------------------------------------------------------
(* redis_cache.redis_client: GET and SETEX on a store with per-key expiry *)

NoEntry == [present |-> FALSE, value |-> "", expiresAt |-> 0]

\* redis_client.get(key) at time t: the value, or None once the entry has expired
redis_get(store, t, key) ==
    IF store[key].present /\ t < store[key].expiresAt
    THEN [some |-> TRUE, val |-> store[key].value]
    ELSE [some |-> FALSE, val |-> ""]

\* redis_client.setex(key, ttl, value) at time t
redis_setex(store, t, key, ttl, value) ==
    [store EXCEPT ![key] = [present |-> TRUE, value |-> value, expiresAt |-> t + ttl]]

-----------------------------------------------------------------------------
(* main.py *)

\* Python's truth value of what redis_client.get returned: None and "" are false
Truthy(x) == x.some /\ x.val # ""

\* cache_ttl with config.CACHE_TTL for every source
cache_ttl_flat(source_type) == 1800

\* {"student": 600, "web": 300, "rag": 1800, "general": 900}.get(source_type, 1800)
cache_ttl(source_type) ==
    CASE source_type = "student" -> 600
      [] source_type = "web" -> 300
      [] source_type = "rag" -> 1800
      [] source_type = "general" -> 900
      [] OTHER -> 1800

\* ask after route_question returned or raised: cache the answer and respond
ask_routed(q, cached, store, t, r) ==
    IF ~r.res.ok
    THEN [question |-> q, got |-> cached, status |-> "raised",
          source |-> "", answer |-> "", cached |-> FALSE,
          calls |-> <<"redis.get">> \o r.calls \o <<"raise">>, writes |-> <<>>,
          prompt |-> r.prompt,
          store |-> store, pool |-> r.pool, table |-> r.table, ran |-> r.ran,
          scope |-> r.scope]
    ELSE [question |-> q, got |-> cached, status |-> "returned",
          source |-> r.source, answer |-> r.res.val, cached |-> FALSE,
          calls |-> <<"redis.get">> \o r.calls \o <<"redis.setex", "return">>,
          writes |-> <<[key |-> q, ttl |-> cache_ttl(r.source), value |-> r.res.val]>>,
          prompt |-> r.prompt,
          store |-> redis_setex(store, t, q, cache_ttl(r.source), r.res.val),
          pool |-> r.pool, table |-> r.table, ran |-> r.ran, scope |-> r.scope]

\* ask_checked that writes the entry again on a hit, renewing its expiry
ask_checked_refresh(q, it, env, store, t, pool, table, ntotal, txts, cached) ==
    IF Truthy(cached)
    THEN [question |-> q, got |-> cached, status |-> "returned",
          source |-> "redis-cache", answer |-> cached.val, cached |-> TRUE,
          calls |-> <<"redis.get", "redis.setex", "return">>,
          writes |-> <<[key |-> q, ttl |-> cache_ttl("redis-cache"), value |-> cached.val]>>,
          prompt |-> NoPrompt,
          store |-> redis_setex(store, t, q, cache_ttl("redis-cache"), cached.val)]
         @@ Untouched(pool, table)
    ELSE ask_routed(q, cached, store, t,
                    route_question(q, it, env, pool, table, ntotal, txts))

\* ask after redis_client.get(question) returned `cached`
ask_checked(q, it, env, store, t, pool, table, ntotal, txts, cached) ==
    IF Truthy(cached)
    THEN [question |-> q, got |-> cached, status |-> "returned",
          source |-> "redis-cache", answer |-> cached.val, cached |-> TRUE,
          calls |-> <<"redis.get", "return">>, writes |-> <<>>, prompt |-> NoPrompt,
          store |-> store]
         @@ Untouched(pool, table)
    ELSE ask_routed(q, cached, store, t,
                    route_question(q, it, env, pool, table, ntotal, txts))

\* ask(question): the request's locals and response, the calls it made in order,
\* and the store and database state it leaves
ask(q, it, env, store, t, pool, table, ntotal, txts) ==
    ask_checked(q, it, env, store, t, pool, table, ntotal, txts, redis_get(store, t, q))

-----------------------------------------------------------------------------
(* The inputs the model draws from *)

Dates ==
    { [year |-> "2026", month |-> "November"],
      [year |-> "2025", month |-> "May"] }

Vocabulary ==
    { "Student", "classic", "average", "age", "weather", "know", "will", "willow",
      "going", "to", "robbery", "Police", "capital", "France", "2026",
      "November", "november" }

RECURSIVE Phrases(_)
\* the questions of exactly n words, separated by single spaces
Phrases(n) ==
    IF n = 1 THEN Vocabulary
    ELSE { p \o " " \o w : p \in Phrases(n - 1), w \in Vocabulary }

Questions == UNION { Phrases(n) : n \in 1..MaxWords }

\* the questions put to /ask
RouterQuestions ==
    { "How many students are enrolled in Python?",
      "What is the weather today in Los Angeles?",
      "Summarize robbery incidents near downtown",
      "What is the capital of France?" }

\* classify_intent on the questions put to /ask, for each date, computed once
IntentTable ==
    { <<d, q, classify_intent(q, d)>> : d \in Dates, q \in RouterQuestions }

IntentOf(q, d) == (CHOOSE t \in IntentTable : t[1] = d /\ t[2] = q)[3]

\* what the completion endpoint replies when asked for SQL, and when asked to answer
SqlReplies ==
    { SelectNames, Fence \o "sql\n" \o SelectNames \o "\n" \o Fence, DeleteAll, BadSelect }

AnswerTexts == { "", "The answer." }

SqlEndpoints == { EndpointDown } \cup { Reply(t) : t \in SqlReplies }

AnswerEndpoints == { EndpointDown } \cup { Reply(t) : t \in AnswerTexts }

\* the database as a request finds it: reachable, or refusing connections
RouterFaults == { {}, {"connect"} }

\* the collaborators' behaviours that the strategy of intent `it` can meet
Envs(it, ntotal) ==
    IF it = "student"
    THEN { Env(e1, e2, ProviderDown, f, <<>>) :
             e1 \in SqlEndpoints, e2 \in AnswerEndpoints, f \in RouterFaults }
    ELSE IF it = "web"
    THEN { Env(EndpointDown, EndpointDown, d, {}, <<>>) : d \in DdgsOutcomes(web_max_results) }
    ELSE IF it = "rag"
    THEN { Env(e1, EndpointDown, ProviderDown, {}, o) :
             e1 \in AnswerEndpoints, o \in Orders(ntotal) }
    ELSE { Env(e1, EndpointDown, ProviderDown, {}, <<>>) : e1 \in AnswerEndpoints }

-----------------------------------------------------------------------------
(* The states each part starts in *)

NoScope == [val |-> "", calls |-> <<>>, sql |-> "", faults |-> {}]

NoEnv == Env(EndpointDown, EndpointDown, ProviderDown, {}, <<>>)

\* the date the services run on
DeployDate == [year |-> "2026", month |-> "November"]

NoSearch == [called |-> FALSE, top_k |-> 0, ok |-> FALSE, exc |-> "", results |-> <<>>]

NoRequest ==
    [question |-> "", intent |-> "", got |-> [some |-> FALSE, val |-> ""],
     status |-> "none", source |-> "", answer |-> "", cached |-> FALSE,
     calls |-> <<>>, writes |-> <<>>, prompt |-> NoPrompt, at |-> 0, env |-> NoEnv]

ClassifierOff ==
    /\ question = ""
    /\ cpc = "off"
    /\ intent = "none"

DbIdle ==
    /\ connection_pool = NoPool
    /\ students = InitialStudents
    /\ scope = NoScope
    /\ nscopes = 0

RetrieverOff ==
    /\ disk = [index |-> NoFile, texts |-> NoFile]
    /\ server = "starting"
    /\ index_ntotal = 0
    /\ texts = <<>>
    /\ found = NoSearch

\* the service started on the two files build_index.py wrote from one dataset
RetrieverLoaded ==
    /\ \E n \in 0..MaxCorpus : disk = [index |-> File(n), texts |-> File(n)]
    /\ server = "serving"
    /\ index_ntotal = LoadResult(disk).ntotal
    /\ texts = LoadResult(disk).texts
    /\ found = NoSearch

RouterIdle ==
    /\ cache = [q \in RouterQuestions |-> NoEntry]
    /\ clock = 0
    /\ last = NoRequest
    /\ nreq = 0

\* no thread is serving a request
ThreadsOff ==
    /\ threads = <<>>
    /\ wlog = <<>>
    /\ workers = <<>>
    /\ pools = <<>>
    /\ current = 0

-----------------------------------------------------------------------------
(* Classifier runs: one question, one call of classify_intent *)

InitClassify ==
    /\ question \in Questions
    /\ today \in Dates
    /\ cpc = "ready"
    /\ intent = "none"
    /\ DbIdle /\ RetrieverOff /\ RouterIdle /\ ThreadsOff

Classify ==
    /\ cpc = "ready"
    /\ intent' = classify_intent(question, today)
    /\ cpc' = "done"
    /\ UNCHANGED <<question, today, dbVars, retrieverVars, routerVars, threadVars>>

NextClassify == Classify

SpecClassify == InitClassify /\ [][NextClassify]_vars

-----------------------------------------------------------------------------
(* Database runs: a sequence of execute_sql_query calls *)

InitDb ==
    /\ today = DeployDate
    /\ ClassifierOff /\ DbIdle /\ RetrieverOff /\ RouterIdle /\ ThreadsOff

ExecuteSql(sql, faults) ==
    /\ nscopes < MaxScopes
    /\ \E r \in { execute_sql_query(sql, connection_pool, students, faults) } :
         /\ connection_pool' = r.pool
         /\ students' = r.table
         /\ scope' = [val |-> r.val, calls |-> r.calls, sql |-> r.sql, faults |-> faults]
    /\ nscopes' = nscopes + 1
    /\ UNCHANGED <<classifierVars, today, retrieverVars, routerVars, threadVars>>

NextDb == \E sql \in Statements, faults \in FaultSets : ExecuteSql(sql, faults)

SpecDb == InitDb /\ [][NextDb]_vars

-----------------------------------------------------------------------------
(* Retriever runs: the import of vector_store, then search_similar calls *)

DiskFiles == { NoFile } \cup { File(n) : n \in 0..MaxCorpus }

InitRetriever ==
    /\ today = DeployDate
    /\ disk \in { [index |-> a, texts |-> b] : a \in DiskFiles, b \in DiskFiles }
    /\ server = "starting"
    /\ index_ntotal = 0
    /\ texts = <<>>
    /\ found = NoSearch
    /\ ClassifierOff /\ DbIdle /\ RouterIdle /\ ThreadsOff

LoadIndex ==
    /\ server = "starting"
    /\ \E r \in { LoadResult(disk) } :
         /\ server' = IF r.ok THEN "serving" ELSE "failed"
         /\ index_ntotal' = r.ntotal
         /\ texts' = r.texts
    /\ UNCHANGED <<disk, found, classifierVars, today, dbVars, routerVars, threadVars>>

Search(query, top_k, order) ==
    /\ server = "serving"
    /\ \E r \in { search_similar(query, top_k, index_ntotal, texts, order) } :
         found' = [called |-> TRUE, top_k |-> top_k, ok |-> r.ok, exc |-> r.exc,
                   results |-> r.results]
    /\ UNCHANGED <<disk, server, index_ntotal, texts, classifierVars, today, dbVars,
                   routerVars, threadVars>>

NextRetriever ==
    \/ LoadIndex
    \/ \E query \in RouterQuestions, top_k \in 1..MaxTopK, order \in Orders(index_ntotal) :
          Search(query, top_k, order)

SpecRetriever == InitRetriever /\ [][NextRetriever]_vars

-----------------------------------------------------------------------------
(* Router runs: /ask requests one after another, and the clock *)

Init ==
    /\ today = DeployDate
    /\ ClassifierOff /\ DbIdle /\ RetrieverLoaded /\ RouterIdle /\ ThreadsOff

Ask(q, env) ==
    /\ server = "serving"
    /\ nreq < MaxRequests
    /\ \E it \in { IntentOf(q, today) } :
       \E r \in { ask(q, it, env, cache, clock, connection_pool, students,
                      index_ntotal, texts) } :
          /\ cache' = r.store
          /\ connection_pool' = r.pool
          /\ students' = r.table
          /\ scope' = IF r.ran THEN r.scope ELSE scope
          /\ nscopes' = IF r.ran THEN nscopes + 1 ELSE nscopes
          /\ last' = [question |-> r.question,
                      intent |-> IF r.cached THEN "" ELSE it,
                      got |-> r.got, status |-> r.status, source |-> r.source,
                      answer |-> r.answer, cached |-> r.cached, calls |-> r.calls,
                      writes |-> r.writes, prompt |-> r.prompt, at |-> clock,
                      env |-> IF r.cached THEN NoEnv ELSE env]
    /\ nreq' = nreq + 1
    /\ UNCHANGED <<clock, classifierVars, today, retrieverVars, threadVars>>

Tick ==
    /\ clock < MaxTicks * TickSeconds
    /\ clock' = clock + TickSeconds
    /\ UNCHANGED <<cache, last, nreq, classifierVars, today, dbVars, retrieverVars,
                   threadVars>>

Next ==
    \/ \E q \in RouterQuestions :
         \E env \in Envs(IntentOf(q, today), index_ntotal) : Ask(q, env)
    \/ Tick

Spec == Init /\ [][Next]_vars

-----------------------------------------------------------------------------
(* Threads in db.py: DatabaseConnection scopes entered by several request threads. *)
(* A step is one statement of get_db_connection or release_db_connection; a thread *)
(* can be preempted between any two of them.                                       *)

Workers == 1..MaxWorkers

\* db.connection_pool as the sequential model sees it: the pool the global names
PoolView(ps, cur) ==
    [created |-> cur # 0, used |-> IF cur = 0 THEN 0 ELSE ps[cur]]

InitPoolThreads ==
    /\ today = DeployDate
    /\ ClassifierOff /\ DbIdle /\ RetrieverOff /\ RouterIdle
    /\ threads = <<>>
    /\ wlog = <<>>
    /\ workers = [w \in Workers |-> [pc |-> "call", conn |-> 0, put |-> 0, rounds |-> 0]]
    /\ pools = <<>>
    /\ current = 0

PoolStep(w, pc, conn, put, ps, cur) ==
    /\ workers' = [workers EXCEPT ![w].pc = pc, ![w].conn = conn, ![w].put = put]
    /\ pools' = ps
    /\ current' = cur
    /\ connection_pool' = PoolView(ps, cur)
    /\ UNCHANGED <<students, scope, nscopes, threads, wlog, classifierVars, today,
                   retrieverVars, routerVars>>

\* get_db_connection: if connection_pool is None
CheckPool(w) ==
    /\ workers[w].pc = "call"
    /\ PoolStep(w, IF current = 0 THEN "init" ELSE "getconn", 0, 0, pools, current)

\* initialize_pool(): connection_pool = SimpleConnectionPool(minconn, maxconn)
InitializePool(w) ==
    /\ workers[w].pc = "init"
    /\ PoolStep(w, "getconn", 0, 0, Append(pools, 0), Len(pools) + 1)

\* conn = connection_pool.getconn(): PoolError once maxconn connections are out
GetConn(w) ==
    /\ workers[w].pc = "getconn"
    /\ IF pools[current] < maxconn
       THEN PoolStep(w, "holding", current, 0,
                     [pools EXCEPT ![current] = @ + 1], current)
       ELSE PoolStep(w, "failed", 0, 0, pools, current)

\* release_db_connection(conn): connection_pool.putconn(conn) on the pool the global
\* names now; a pool raises PoolError for a connection it did not hand out
Release(w) ==
    /\ workers[w].pc = "holding"
    /\ IF workers[w].conn = current
       THEN PoolStep(w, "released", workers[w].conn, current,
                     [pools EXCEPT ![current] = @ - 1], current)
       ELSE PoolStep(w, "failed", workers[w].conn, current, pools, current)

\* the thread takes its next request
NextScope(w) ==
    /\ workers[w].pc = "released"
    /\ workers[w].rounds + 1 < MaxRounds
    /\ workers' = [workers EXCEPT ![w] = [pc |-> "call", conn |-> 0, put |-> 0,
                                          rounds |-> @.rounds + 1]]
    /\ UNCHANGED <<pools, current, threads, wlog, dbVars, classifierVars, today,
                   retrieverVars, routerVars>>

NextPoolThreads ==
    \E w \in Workers :
        \/ CheckPool(w)
        \/ InitializePool(w)
        \/ GetConn(w)
        \/ Release(w)
        \/ NextScope(w)

SpecPoolThreads == InitPoolThreads /\ [][NextPoolThreads]_vars

-----------------------------------------------------------------------------
(* Threads in main.py: /ask requests in flight together. FastAPI runs the plain  *)
(* function ask in a thread pool; a step is one call of ask (the cache lookup,   *)
(* route_question, the cache write followed by the return), and a thread can be  *)
(* preempted between any two of them. Each Redis command is atomic.              *)

ThreadIds == 1..MaxThreads

\* the questions put to /ask at the same time: those whose strategy keeps no state
ThreadQuestions ==
    { q \in RouterQuestions : IntentOf(q, DeployDate) \in {"web", "general"} }

IdleThread ==
    [pc |-> "idle", question |-> "", got |-> [some |-> FALSE, val |-> ""],
     produced |-> "", source |-> "", exc |-> "",
     response |-> [source |-> "", answer |-> "", cached |-> FALSE]]

\* cached = redis_client.get(question)
ask_lookup(store, t, q) == redis_get(store, t, q)

\* ask_store that leaves an entry another request wrote in place
ask_store_first_wins(store, t, q, source_type, answer) ==
    IF redis_get(store, t, q).some THEN store
    ELSE redis_setex(store, t, q, cache_ttl(source_type), answer)

\* redis_client.setex(question, cache_ttl, answer)
ask_store(store, t, q, source_type, answer) ==
    redis_setex(store, t, q, cache_ttl(source_type), answer)

InitAskThreads ==
    /\ today = DeployDate
    /\ ClassifierOff /\ DbIdle /\ RetrieverLoaded /\ RouterIdle
    /\ index_ntotal = 0
    /\ threads = [i \in ThreadIds |-> IdleThread]
    /\ wlog = <<>>
    /\ workers = <<>>
    /\ pools = <<>>
    /\ current = 0

ThreadStep(i, th) ==
    /\ threads' = [threads EXCEPT ![i] = th]
    /\ UNCHANGED <<workers, pools, current, clock, last, nreq, classifierVars, today,
                   dbVars, retrieverVars>>

\* lines 23-26: the lookup, and the response of a hit
ThreadGet(i, q) ==
    /\ threads[i].pc = "idle"
    /\ \E got \in { ask_lookup(cache, clock, q) } :
         ThreadStep(i,
            IF Truthy(got)
            THEN [threads[i] EXCEPT !.pc = "done", !.question = q, !.got = got,
                     !.response = [source |-> "redis-cache", answer |-> got.val,
                                   cached |-> TRUE]]
            ELSE [threads[i] EXCEPT !.pc = "missed", !.question = q, !.got = got])
    /\ UNCHANGED <<cache, wlog>>

\* line 30: answer, source_type = route_question(question)
ThreadRoute(i, env) ==
    /\ threads[i].pc = "missed"
    /\ \E r \in { route_question(threads[i].question,
                                 IntentOf(threads[i].question, today), env,
                                 connection_pool, students, index_ntotal, texts) } :
         ThreadStep(i,
            IF r.res.ok
            THEN [threads[i] EXCEPT !.pc = "routed", !.produced = r.res.val,
                                    !.source = r.source]
            ELSE [threads[i] EXCEPT !.pc = "failed", !.exc = r.res.exc])
    /\ UNCHANGED <<cache, wlog>>

\* lines 34-41: the cache write and the response of a miss
ThreadSetex(i) ==
    /\ threads[i].pc = "routed"
    /\ cache' = ask_store(cache, clock, threads[i].question, threads[i].source,
                          threads[i].produced)
    /\ wlog' = Append(wlog, [key |-> threads[i].question, value |-> threads[i].produced,
                             ttl |-> cache_ttl(threads[i].source), at |-> clock,
                             by |-> i])
    /\ ThreadStep(i, [threads[i] EXCEPT !.pc = "done",
                         !.response = [source |-> threads[i].source,
                                       answer |-> threads[i].produced,
                                       cached |-> FALSE]])

NextAskThreads ==
    \E i \in ThreadIds :
        \/ \E q \in ThreadQuestions : ThreadGet(i, q)
        \/ /\ threads[i].pc = "missed"
           /\ \E env \in Envs(IntentOf(threads[i].question, today), index_ntotal) :
                 ThreadRoute(i, env)
        \/ ThreadSetex(i)

SpecAskThreads == InitAskThreads /\ [][NextAskThreads]_vars

-----------------------------------------------------------------------------
(* Claims about the /ask endpoint and the router *)

Count(seq, x) == Cardinality({ i \in 1..Len(seq) : seq[i] = x })

Before(seq, x, y) ==
    \A j \in 1..Len(seq) : seq[j] = y => \E i \in 1..(j - 1) : seq[i] = x

Answered == last.status = "returned"

Missed == last.status # "none" /\ ~Truthy(last.got)

\* the TTL the specification gives each source label
SpecTtl == [student |-> 600, web |-> 300, rag |-> 1800, general |-> 900]

\* C1: a request that misses the cache and whose strategy returns a value makes
\* exactly one cache write, of (question, answer), before it returns, with the TTL
\* of its source label: student 600 s, web 300 s, rag 1800 s, general 900 s.
C1_MissWritesOnceWithTtl ==
    (Answered /\ ~last.cached) =>
        /\ last.source \in DOMAIN SpecTtl
        /\ Len(last.writes) = 1
        /\ last.writes[1] = [key |-> last.question, ttl |-> SpecTtl[last.source],
                             value |-> last.answer]
        /\ Count(last.calls, "redis.setex") = 1
        /\ Before(last.calls, "redis.setex", "return")

\* a miss answered by the Structured path and written with its TTL
C1_Witness ==
    /\ Answered /\ ~last.cached
    /\ last.source = "student"
    /\ last.writes = <<[key |-> last.question, ttl |-> 600, value |-> last.answer]>>

\* C2: once the router has cached an answer for a question (the empty string
\* included), a request for that question before the TTL expires returns
\* cached=true, source "redis-cache" and that answer, and calls no strategy.
C2_RepeatServedFromCache ==
    (last.status # "none" /\ last.got.some) =>
        /\ Answered
        /\ last.cached
        /\ last.source = "redis-cache"
        /\ last.answer = last.got.val
        /\ last.calls = <<"redis.get", "return">>

StrategyOf ==
    [student |-> "query_students_natural", web |-> "live_search",
     rag |-> "rag_answer", general |-> "query_ollama_direct"]

Strategies == { StrategyOf[i] : i \in DOMAIN StrategyOf }

\* C3: on a cache miss the router classifies the question once and calls exactly
\* one strategy, the one of the intent, and no other; a request that returns
\* carries the source label equal to that intent.
C3_MissDispatchesOneStrategy ==
    Missed =>
        /\ last.intent \in DOMAIN StrategyOf
        /\ Count(last.calls, "classify_intent") = 1
        /\ \A st \in Strategies :
              Count(last.calls, st) = IF st = StrategyOf[last.intent] THEN 1 ELSE 0
        /\ Answered => last.source = last.intent

\* a miss dispatched to the RAG strategy alone
C3_Witness ==
    /\ Missed /\ Answered
    /\ last.intent = "rag"
    /\ last.source = "rag"
    /\ Count(last.calls, "rag_answer") = 1

\* a collaborator the request's strategy called was unavailable
CollaboratorDown ==
    /\ Missed
    /\ \/ last.intent = "web" /\ ~last.env.ddgs.up
       \/ last.intent = "general" /\ ~last.env.endpoint1.up
       \/ last.intent = "rag" /\ ~last.env.endpoint1.up
       \/ last.intent = "student"
            /\ (~last.env.endpoint1.up \/ ~last.env.endpoint2.up
                \/ "connect" \in last.env.faults)

\* C4: when the web search provider, the completion endpoint or the database is
\* unavailable during a strategy, the request fails: no answer string is
\* returned in its place and nothing is written to the cache.
C4_UnavailablePropagates ==
    CollaboratorDown =>
        /\ last.status = "raised"
        /\ last.writes = <<>>
        /\ ~cache[last.question].present

IsSelect(sql) == StartsWith(Upper(Strip(sql)), "SELECT")

\* C5: whatever query the language model generates on the Structured path, no
\* mutating statement is executed and committed: the table stays as it was.
C5_StructuredPathReadOnly ==
    /\ students = InitialStudents
    /\ (Count(scope.calls, "execute") = 1 /\ Count(scope.calls, "commit") = 1)
          => IsSelect(scope.sql)

-----------------------------------------------------------------------------
(* Claims about the database scope *)

\* C6: every connection a DatabaseConnection scope checked out is back in the
\* pool when the scope ends, whichever call failed, so no connection stays
\* checked out after any sequence of scopes; a rollback precedes the release.
C6_ScopeReleasesConnection ==
    /\ connection_pool.used = 0
    /\ Before(scope.calls, "rollback", "putconn") \/ Count(scope.calls, "rollback") = 0

-----------------------------------------------------------------------------
(* Claims about the retriever *)

Min(a, b) == IF a < b THEN a ELSE b

\* C9: search_similar returns exactly min(top_k, corpus size) passages, none of
\* them padded, duplicated or a placeholder.
C9_SearchReturnsMinTopKCorpus ==
    (found.called /\ index_ntotal = Len(texts)) =>
        /\ found.ok
        /\ Len(found.results) = Min(found.top_k, index_ntotal)
        /\ \A i, j \in 1..Len(found.results) :
              i # j => found.results[i].text # found.results[j].text
        /\ \A i \in 1..Len(found.results) : found.results[i].distance # FaissNoDistance

\* C10: when the index and the passage list on disk differ in length, startup
\* fails: the service never serves and no search runs on the mismatched pair.
C10_MismatchStopsStartup ==
    (disk.index.present /\ disk.texts.present /\ disk.index.n # disk.texts.n) =>
        /\ server # "serving"
        /\ ~found.called

-----------------------------------------------------------------------------
(* Claims about the RAG strategy, the Structured path and cache hits *)

\* C12: rag_answer calls the retriever exactly once (top_k = 5) and then the
\* completion client exactly once, whatever the retrieval yields; on a corpus with
\* no passage the context section of the prompt is empty and the call succeeds.
C12_RagRetrievesThenCompletes ==
    (Missed /\ last.intent = "rag") =>
        /\ rag_top_k = 5
        /\ Count(last.calls, "search_similar") = 1
        /\ Count(last.calls, "query_ollama") = 1
        /\ Before(last.calls, "search_similar", "query_ollama")
        /\ index_ntotal = 0 =>
              /\ last.prompt = rag_prompt(last.question, "")
              /\ last.env.endpoint1.up => Answered

\* C15: when the generated query fails to execute, execute_sql_query returns a
\* string describing the failure, query_students_natural returns a string, and the
\* router answers with source 'student' and caches the answer for 600 s.
C15_FailedQueryIsAnswered ==
    ( /\ Missed /\ last.intent = "student"
      /\ last.env.endpoint1.up /\ last.env.faults = {}
      /\ CleanSql(last.env.endpoint1.text) = BadSelect ) =>
        /\ scope.sql = BadSelect
        /\ Count(scope.calls, "execute") = 0
        /\ StartsWith(scope.val, "Error executing query: ")
        /\ Answered
        /\ last.source = "student"
        /\ last.writes = <<[key |-> last.question, ttl |-> 600, value |-> last.answer]>>
        /\ last.env.endpoint2.up => last.answer = last.env.endpoint2.text

\* a request whose generated query named a relation that does not exist
C15_Witness ==
    /\ Missed /\ Answered /\ last.intent = "student"
    /\ last.env.endpoint1 = Reply(BadSelect) /\ last.env.faults = {}
    /\ scope.val = "Error executing query: ProgrammingError"
    /\ last.writes = <<[key |-> last.question, ttl |-> 600, value |-> last.answer]>>

\* C17: a request that hits the cache makes no cache write and leaves every
\* entry, value and expiry time, as the miss that wrote it left it.
C17_HitLeavesCacheUnchanged ==
    [][ (nreq' = nreq + 1 /\ last'.cached) =>
            (cache' = cache /\ last'.writes = <<>>) ]_vars

\* a hit served after the clock advanced, the entry still as the miss wrote it
C17_Witness ==
    /\ last.cached /\ last.writes = <<>>
    /\ last.at > 0
    /\ cache[last.question].present
    /\ cache[last.question].value = last.answer
    /\ cache[last.question].expiresAt = cache_ttl("rag")

-----------------------------------------------------------------------------
(* Claims about concurrent requests *)

WritesTo(log, k) == { j \in 1..Len(log) : log[j].key = k }

LatestWrite(log, k) == log[CHOOSE j \in WritesTo(log, k) : \A m \in WritesTo(log, k) : m <= j]

\* the entry the store must hold for key k once the writes of `log` were made in order
LastWritten(log, k) ==
    IF WritesTo(log, k) = {} THEN NoEntry
    ELSE [present |-> TRUE, value |-> LatestWrite(log, k).value,
          expiresAt |-> LatestWrite(log, k).at + LatestWrite(log, k).ttl]

\* C11: with several ask() requests in flight, the entry of each question is the
\* (answer, TTL) of the last write made for that question, so requests on other
\* questions neither read nor overwrite it; a request that missed returns the
\* answer its own strategy produced, a hit returns an answer written for its own
\* question, and no request fails except by its own strategy raising.
C11_ConcurrentRequestsLastWriteWins ==
    /\ \A k \in DOMAIN cache : cache[k] = LastWritten(wlog, k)
    /\ \A j \in 1..Len(wlog) : wlog[j].ttl = SpecTtl[threads[wlog[j].by].source]
    /\ \A i \in DOMAIN threads :
          /\ (threads[i].pc = "done" /\ ~threads[i].response.cached) =>
                /\ threads[i].response.answer = threads[i].produced
                /\ threads[i].response.source = IntentOf(threads[i].question, today)
                /\ \E j \in WritesTo(wlog, threads[i].question) :
                      wlog[j].by = i /\ wlog[j].value = threads[i].produced
          /\ (threads[i].pc = "done" /\ threads[i].response.cached) =>
                \E j \in WritesTo(wlog, threads[i].question) :
                      wlog[j].by # i /\ wlog[j].value = threads[i].response.answer
          /\ threads[i].pc = "failed" =>
                (threads[i].exc # "" /\ \A j \in 1..Len(wlog) : wlog[j].by # i)

\* two requests for one question that both missed and wrote different answers
C11_Witness ==
    \E i, j \in DOMAIN threads :
        /\ i # j
        /\ threads[i].pc = "done" /\ threads[j].pc = "done"
        /\ threads[i].question = threads[j].question
        /\ ~threads[i].response.cached /\ ~threads[j].response.cached
        /\ threads[i].produced # threads[j].produced
        /\ Len(wlog) = 2 /\ wlog[2].by = j
        /\ cache[threads[j].question].value = threads[j].produced

\* C16: when several threads call get_db_connection for the first time together,
\* the pool is created at most once, every connection goes back to the pool it
\* came from, and no pool has more than maxconn (10) connections checked out.
C16_PoolCreatedOnce ==
    /\ Len(pools) <= 1
    /\ \A w \in DOMAIN workers : workers[w].put \in {0, workers[w].conn}
    /\ \A i \in DOMAIN pools : pools[i] <= maxconn

-----------------------------------------------------------------------------
(* Claims about the classifier *)

Intents == { "student", "web", "rag", "general" }

StructuredTerms == student_keywords \cup student_operations

ContainsAny(s, terms) == \E t \in terms : Contains(s, t)

HasStructuredTerm(q) == ContainsAny(Lower(q), StructuredTerms)

SearchAnyWord(s, words) == \E w \in words : SearchWord(s, w)

HasLiveIndicator(q, now) ==
    \/ ContainsAny(Lower(q), temporal_keywords(now) \cup live_topics)
    \/ SearchAnyWord(Lower(q), future_patterns)

HasDomainTerm(q) == ContainsAny(Lower(q), domain_keywords)

\* C7: a question whose lowercase text contains a structured-data keyword or
\* operation phrase is classified 'student', whatever Live keyword, future-tense
\* pattern or Domain keyword it also contains.
C7_StructuredPriority ==
    (cpc = "done" /\ HasStructuredTerm(question)) => intent = "student"

\* a classified question holding a structured term beside a Live indicator
C7_Witness ==
    /\ cpc = "done"
    /\ HasStructuredTerm(question)
    /\ HasLiveIndicator(question, today)
    /\ intent = "student"

C13_YearOrMonthIsLive ==
    ( /\ cpc = "done"
      /\ ~HasStructuredTerm(question)
      /\ ContainsAny(Lower(question), { Lower(today.year), Lower(today.month) }) ) =>
        intent = "web"

\* the /ask response to `q` classified as `it`, on an empty cache, for collaborators env
FirstAsk(q, it, env) ==
    ask(q, it, env, [k \in {q} |-> NoEntry], 0, NoPool, InitialStudents, 0, <<>>)

ReturnsWebFor300(r) ==
    /\ r.status = "returned"
    /\ r.source = "web"
    /\ r.writes = <<[key |-> r.question, ttl |-> 300, value |-> r.answer]>>

====
